---- MODULE Spec2Model ----
(***************************************************************************)
(* Model of monitor-server's alert lifecycle engine                        *)
(* (internal/service/alert_service.go), its rule administration handlers   *)
(* and the bounded metric history of internal/service/monitor.go.          *)
(*                                                                         *)
(* Percentages are integers.  The tables alerts, history and events are    *)
(* sequences in primary-key order: the row with ID i is element i, and a   *)
(* new row gets ID Len + 1 (auto-increment, nothing is ever deleted).      *)
(***************************************************************************)
EXTENDS Integers, Sequences, FiniteSets, TLC

VARIABLES
    rules,           \* table alert_rules, in primary-key order
    alerts,          \* table alerts
    history,         \* table alert_histories (append only)
    events,          \* table system_events (append only)
    now,             \* the clock: one unit passes per operation
    ret,             \* what the last operation was, what it returned and, for a
                     \* successful acknowledge / resolve, the message it was given
    everReached,     \* metrics whose reading has reached some rule's threshold on a tick
    trail,           \* per alert id, the calls that created, acknowledged and resolved it
    cpuHistory,      \* monitorService.cpuHistory
    memoryHistory,   \* monitorService.memoryHistory
    networkHistory,  \* monitorService.networkHistory
    pushed,          \* per history kind, every point pushed so far, in push order
    sampled,         \* number of sampling ticks run, the sampler's clock
    deviations,      \* number of OS reads so far that failed or returned the high answer
    failed,          \* the history kinds whose OS read returned an error on the last sampling tick
    inflight,        \* the evaluation tick in progress, when its storage calls are
                     \* separate steps: its data, rules, remaining rules and loaded alert
    running,         \* AlertDetector.running
    stopCh,          \* AlertDetector.stopCh: "open" or "closed"
    ctxDone,         \* the context of the AlertDetectorManager has been cancelled
    ticker,          \* AlertDetector.ticker: is it active, and the ticks waiting in C
    loop,            \* where the goroutine of AlertDetector.Start is
    collectTicker,   \* monitorService.collectTicker
    stopCollection,  \* monitorService.stopCollection: "open" or "closed"
    collector,       \* where the goroutine of startBackgroundCollection is
    count,           \* what has happened since the last Start: timer fires, ticks
                     \* dropped and taken, evaluations; and the sampling ticks, the
                     \* Start calls and the panics of ticks since the beginning
    signals,         \* the stop calls made since the evaluation loop was last started
    mu,              \* monitorService.mu: the readers holding it and whether the writer does
    sampling,        \* the sampling tick in progress, when its steps are separate
    gets,            \* per reader, the Get...Data call in progress and the history
                     \* its last call returned
    config,          \* the row of table monitoring_configs with the key
                     \* alert_check_interval: is it there, and its value
    interval,        \* the interval, in milliseconds, AlertDetectorManager.Start
                     \* handed to time.NewTicker; 0 before it has done so
    calls,           \* per caller of AlertDetector.Start, where its call is when
                     \* the statements of Start are separate steps
    loops            \* the goroutines of AlertDetector.Start that have not returned,
                     \* counted when the statements of Start are separate steps

vars == <<rules, alerts, history, events, now, ret, everReached, trail,
          cpuHistory, memoryHistory, networkHistory, pushed, sampled,
          deviations, failed, inflight, running, stopCh, ctxDone, ticker, loop,
          collectTicker, stopCollection, collector, count, signals,
          mu, sampling, gets, config, interval, calls, loops>>

alertVars == <<rules, alerts, history, events, now, ret, everReached, trail>>

samplerVars == <<cpuHistory, memoryHistory, networkHistory, pushed, sampled,
                 deviations, failed>>

loopVars == <<running, stopCh, ctxDone, ticker, loop, collectTicker,
              stopCollection, collector, count, signals>>

readVars == <<mu, sampling, gets>>

startVars == <<config, interval, calls, loops>>

\* what a handler of the alert engine, run as one step, leaves alone
engineFrame == <<samplerVars, inflight, loopVars, readVars, startVars>>

\* what a step of an evaluation tick leaves alone beside the alert engine
tickFrame == <<samplerVars, loopVars, readVars, startVars>>

\* what a sampling tick leaves alone
samplerFrame == <<alertVars, inflight, loopVars, readVars, startVars>>

\* what the two loops and their start and stop calls leave alone
loopFrame == <<alertVars, samplerVars, inflight, readVars, startVars>>

\* what the steps of a sampling tick and of the history readers leave alone
readFrame == <<alertVars, inflight, loopVars, startVars>>

----------------------------------------------------------------------------
(* Bounds *)

\* operations (evaluation ticks and requests) per behaviour of the alert engine
MaxOps == 4

\* sampling ticks per behaviour: enough to fill a history and evict from it
MaxSamples == 22

\* OS reads per behaviour that fail or return the high answer
MaxDeviations == 1

\* timer fires per behaviour, of the two tickers together
MaxFires == 3

\* calls of AlertDetector.Start per behaviour
MaxStarts == 2

\* calls of GetCPUData, GetMemoryData and GetNetworkData per behaviour
MaxReads == 2

\* characters of a stored value of alert_check_interval
MaxValueLen == 3

\* sampling ticks already run when the readers are watched: the histories are
\* one point short of full
Prefilled == 19

----------------------------------------------------------------------------
(* Domains *)

\* the keys of the metrics map of CheckAlerts
Metrics == {"cpu", "memory", "disk"}

Severities == {"warning", "critical"}

\* readings a tick can observe: 70 is below every default threshold, 80 is
\* the cpu warning threshold and above a threshold lowered to 75
Readings == {70, 80}

\* messages an operator can send with acknowledge / resolve
Messages == {"reviewing", "fixed"}

\* thresholds a rule administration request can carry
NewThresholds == {75}

\* metric types and severities a rule administration request can name
AdminMetrics == {"cpu", "memory"}

AdminSeverities == {"warning"}

\* host ids a host rule can be created for
HostIDs == {1}

\* os.Hostname() of the process
Hostname == "host"

\* table hosts, hostname by id: the hosts a rule can be scoped to are other
\* machines than the one the process runs on
Hosts == [h \in HostIDs |-> "remote"]

\* a nil *uint / nil *model.Alert
Nil == 0

NoData == [m \in Metrics |-> 0]

----------------------------------------------------------------------------
(* Rules *)

Rule(id, metric, op, threshold, duration, severity, enabled, hostID) ==
    [ID |-> id, MetricType |-> metric, Operator |-> op, Threshold |-> threshold,
     Duration |-> duration, Severity |-> severity, Enabled |-> enabled,
     HostID |-> hostID]

\* the six global rules every installation starts with
InitializeDefaultAlertRules ==
    << Rule(1, "cpu",    ">", 80, 300, "warning",  TRUE, Nil),
       Rule(2, "cpu",    ">", 95,  60, "critical", TRUE, Nil),
       Rule(3, "memory", ">", 85, 300, "warning",  TRUE, Nil),
       Rule(4, "memory", ">", 95,  60, "critical", TRUE, Nil),
       Rule(5, "disk",   ">", 90, 600, "warning",  TRUE, Nil),
       Rule(6, "disk",   ">", 98,  60, "critical", TRUE, Nil) >>

\* SELECT * FROM alert_rules: every rule, enabled or not, global or host scoped
GetAllRules(rs) == rs

\* index of the first element of s satisfying P, 0 when there is none
FirstIndex(s, P(_)) ==
    IF \E i \in 1..Len(s) : P(s[i])
    THEN CHOOSE i \in 1..Len(s) : P(s[i]) /\ \A j \in 1..(i-1) : ~P(s[j])
    ELSE 0

----------------------------------------------------------------------------
(* Alert storage *)

\* the lookup under the fallback host name instead of the host name alerts carry
getActiveAlert_WrongHost(as, metricType, severity, hostname) ==
    FirstIndex(as, LAMBDA a : /\ a.MetricType = metricType
                              /\ a.Severity = severity
                              /\ a.HostName = "localhost"
                              /\ a.Status = "active")

\* the lookup without its status condition
getActiveAlert_AnyStatus(as, metricType, severity, hostname) ==
    FirstIndex(as, LAMBDA a : /\ a.MetricType = metricType
                              /\ a.Severity = severity
                              /\ a.HostName = hostname)

\* the lookup taking an acknowledged alert for an alert still open
getActiveAlert_OpenStatuses(as, metricType, severity, hostname) ==
    FirstIndex(as, LAMBDA a : /\ a.MetricType = metricType
                              /\ a.Severity = severity
                              /\ a.HostName = hostname
                              /\ a.Status \in {"active", "acknowledged"})

\* first active alert of the key, in primary-key order; Nil when there is none
getActiveAlert(as, metricType, severity, hostname) ==
    FirstIndex(as, LAMBDA a : /\ a.MetricType = metricType
                              /\ a.Severity = severity
                              /\ a.HostName = hostname
                              /\ a.Status = "active")

generateAlertMessage(metricType, severity, currentValue, threshold) ==
    <<"message", metricType, severity, currentValue, threshold>>

generateAlertDescription(metricType, severity, currentValue, threshold) ==
    <<"description", metricType, severity, currentValue, threshold>>

\* the storage calls of one tick that can return an error
FaultKinds == {"lookup", "create", "history", "event", "update"}

\* the storage state a handler works on; faults are the storage calls that
\* fail while it runs, each named by the metric type and severity it is made
\* for and by its kind
Store(as, hs, es, faults) ==
    [alerts |-> as, history |-> hs, events |-> es, faults |-> faults]

\* the storage call of this kind for this metric type and severity fails
Fails(S, metricType, severity, kind) ==
    <<metricType, severity, kind>> \in S.faults

\* createAlert going on to its history row and its event after a failed INSERT
createAlert_NoReturnOnError(S, alert, t) ==
    LET id == Len(S.alerts) + 1
        row == [alert EXCEPT !.ID = id, !.CreatedAt = t, !.UpdatedAt = t]
    IN  [S EXCEPT
          !.alerts = IF Fails(S, alert.MetricType, alert.Severity, "create")
                     THEN @
                     ELSE Append(@, row),
          !.history = Append(@, [AlertID |-> IF Fails(S, alert.MetricType,
                                                      alert.Severity, "create")
                                             THEN 0 ELSE id,
                                 Action |-> "created", Message |-> "created"]),
          !.events = Append(@, [EventType |-> "alert_created",
                                Severity |-> row.Severity,
                                Message |-> row.Message,
                                Description |-> row.Description,
                                Source |-> "alert_service",
                                HostName |-> row.HostName])]

\* INSERT the alert and return on an error; then INSERT its "created" history
\* row and its alert_created event, the error of either one ignored
createAlert(S, alert, t) ==
    LET id == Len(S.alerts) + 1
        row == [alert EXCEPT !.ID = id, !.CreatedAt = t, !.UpdatedAt = t]
    IN  IF Fails(S, alert.MetricType, alert.Severity, "create")
        THEN S
        ELSE [S EXCEPT
               !.alerts = Append(@, row),
               !.history =
                   IF Fails(S, alert.MetricType, alert.Severity, "history")
                   THEN @
                   ELSE Append(@, [AlertID |-> id, Action |-> "created",
                                   Message |-> "created"]),
               !.events =
                   IF Fails(S, alert.MetricType, alert.Severity, "event")
                   THEN @
                   ELSE Append(@, [EventType |-> "alert_created",
                                   Severity |-> row.Severity,
                                   Message |-> row.Message,
                                   Description |-> row.Description,
                                   Source |-> "alert_service",
                                   HostName |-> row.HostName])]

\* the write-back touching the timestamp only
updateAlert_TimestampOnly(S, alert, t) ==
    IF Fails(S, alert.MetricType, alert.Severity, "update")
    THEN S
    ELSE [S EXCEPT !.alerts[alert.ID].UpdatedAt = t]

\* db.Save: writes every column of the row with the alert's primary key,
\* or nothing when it fails
updateAlert(S, alert, t) ==
    IF Fails(S, alert.MetricType, alert.Severity, "update")
    THEN S
    ELSE [S EXCEPT !.alerts[alert.ID] = [alert EXCEPT !.UpdatedAt = t]]

\* the comparison turned around
Breached_Inverted(currentValue, rule) == currentValue <= rule.Threshold

\* the comparison CheckAlerts makes for every rule
Breached(currentValue, rule) == currentValue >= rule.Threshold

\* the loop body with an alert resolved as soon as its rule no longer breaches
CheckRule_AutoResolve(S, metricType, currentValue, rule, t) ==
    IF rule.MetricType # metricType THEN S
    ELSE IF Fails(S, metricType, rule.Severity, "lookup") THEN S
    ELSE LET existingAlert ==
                 getActiveAlert(S.alerts, metricType, rule.Severity, Hostname)
         IN  IF Breached(currentValue, rule)
             THEN IF existingAlert = Nil
                  THEN createAlert(S,
                         [ID |-> 0, MetricType |-> metricType,
                          Severity |-> rule.Severity, Value |-> currentValue,
                          Threshold |-> rule.Threshold, Status |-> "active",
                          Message |-> generateAlertMessage(metricType,
                                        rule.Severity, currentValue, rule.Threshold),
                          Description |-> generateAlertDescription(metricType,
                                        rule.Severity, currentValue, rule.Threshold),
                          HostName |-> Hostname, CreatedAt |-> 0, UpdatedAt |-> 0], t)
                  ELSE updateAlert(S, [S.alerts[existingAlert]
                                         EXCEPT !.Value = currentValue], t)
             ELSE IF existingAlert # Nil
                  THEN updateAlert(S, [S.alerts[existingAlert]
                                         EXCEPT !.Value = currentValue,
                                                !.Status = "resolved"], t)
                  ELSE S

\* what getActiveAlert hands back: no row, or a copy of the row it found
Loaded(as, idx) == IF idx = Nil THEN << >> ELSE <<as[idx]>>

\* the body of the inner loop of CheckAlerts after its lookup: existingAlert is
\* the copy the lookup loaded, S the storage as it is when the write is made
writeAlert(S, metricType, currentValue, rule, existingAlert, t) ==
    IF Breached(currentValue, rule)
    THEN IF existingAlert = << >>
         THEN createAlert(S,
                [ID |-> 0, MetricType |-> metricType,
                 Severity |-> rule.Severity, Value |-> currentValue,
                 Threshold |-> rule.Threshold, Status |-> "active",
                 Message |-> generateAlertMessage(metricType,
                               rule.Severity, currentValue, rule.Threshold),
                 Description |-> generateAlertDescription(metricType,
                               rule.Severity, currentValue, rule.Threshold),
                 HostName |-> Hostname, CreatedAt |-> 0, UpdatedAt |-> 0], t)
         ELSE updateAlert(S, [existingAlert[1] EXCEPT !.Value = currentValue], t)
    ELSE IF existingAlert # << >>
         THEN updateAlert(S, [existingAlert[1] EXCEPT !.Value = currentValue], t)
         ELSE S

\* the body of the inner loop of CheckAlerts for one (metric, rule) pair
CheckRule(S, metricType, currentValue, rule, t) ==
    IF rule.MetricType # metricType THEN S
    ELSE IF Fails(S, metricType, rule.Severity, "lookup") THEN S
    ELSE writeAlert(S, metricType, currentValue, rule,
                    Loaded(S.alerts, getActiveAlert(S.alerts, metricType,
                                                    rule.Severity, Hostname)), t)

\* the inner loop: every rule, in the order GetAllRules returned them
RECURSIVE CheckMetric(_, _, _, _, _)
CheckMetric(S, metricType, currentValue, rs, t) ==
    IF rs = << >> THEN S
    ELSE CheckMetric(CheckRule(S, metricType, currentValue, Head(rs), t),
                     metricType, currentValue, Tail(rs), t)

\* the outer loop returning the error of the first metric a storage call fails for
RECURSIVE CheckMetrics_ReturnOnError(_, _, _, _, _)
CheckMetrics_ReturnOnError(S, order, data, rs, t) ==
    IF order = << >> THEN S
    ELSE IF \E f \in S.faults : f[1] = Head(order)
         THEN CheckMetric(S, Head(order), data[Head(order)], rs, t)
         ELSE CheckMetrics_ReturnOnError(
                  CheckMetric(S, Head(order), data[Head(order)], rs, t),
                  Tail(order), data, rs, t)

\* the outer loop: the metrics in the order the map iteration yields them
RECURSIVE CheckMetrics(_, _, _, _, _)
CheckMetrics(S, order, data, rs, t) ==
    IF order = << >> THEN S
    ELSE CheckMetrics(CheckMetric(S, Head(order), data[Head(order)], rs, t),
                      Tail(order), data, rs, t)

\* the orders in which a Go map with the keys Metrics can be iterated
MetricOrders ==
    {o \in [1..3 -> Metrics] : \A i, j \in 1..3 : i # j => o[i] # o[j]}

\* the rules for which CheckAlerts takes the breach branch
BreachedRules(data, rs) ==
    {rs[i].ID : i \in {j \in 1..Len(rs) :
                         /\ rs[j].MetricType \in Metrics
                         /\ Breached(data[rs[j].MetricType], rs[j])}}

\* the metrics whose reading is at or above the threshold of one of their rules
ReachedMetrics(data, rs) ==
    {m \in Metrics : \E i \in 1..Len(rs) :
                         rs[i].MetricType = m /\ data[m] >= rs[i].Threshold}

Ret(op, err, id, data, breached) ==
    [op |-> op, err |-> err, id |-> id, data |-> data, breached |-> breached]

\* the (metric type, severity) pairs for which a tick calls createAlert and the
\* INSERT of the alert fails: a rule breaches, the lookup succeeds and finds no
\* active alert
LostCreates(as, rs, data, faults) ==
    {<<rs[i].MetricType, rs[i].Severity>> : i \in {j \in 1..Len(rs) :
        /\ rs[j].MetricType \in Metrics
        /\ Breached(data[rs[j].MetricType], rs[j])
        /\ <<rs[j].MetricType, rs[j].Severity, "lookup">> \notin faults
        /\ <<rs[j].MetricType, rs[j].Severity, "create">> \in faults
        /\ getActiveAlert(as, rs[j].MetricType, rs[j].Severity, Hostname) = Nil}}

----------------------------------------------------------------------------
(* Operations of the alert engine *)

\* one evaluation tick: AlertService.CheckAlerts(data), with the storage calls
\* that fail during it
CheckAlerts(data, order, faults) ==
    /\ now < MaxOps
    /\ LET S == CheckMetrics(Store(alerts, history, events, faults), order, data,
                             GetAllRules(rules), now + 1)
       IN  /\ alerts' = S.alerts
           /\ history' = S.history
           /\ events' = S.events
    /\ now' = now + 1
    /\ ret' = Ret("CheckAlerts", "nil", Nil, data, BreachedRules(data, rules))
                  @@ [faults |-> faults,
                      lost |-> LostCreates(alerts, rules, data, faults),
                      after |-> IF ret.op = "CheckAlerts" THEN ret.lost ELSE {}]
    /\ everReached' = everReached \cup ReachedMetrics(data, rules)
    /\ trail' = [i \in 1..Len(alerts') |->
                    IF i <= Len(alerts) THEN trail[i] ELSE <<"create">>]
    /\ UNCHANGED rules
    /\ UNCHANGED engineFrame

\* ResolveAlert going on to write its history row after a failed lookup
ResolveAlert_IgnoreNotFound(alertID, message) ==
    /\ now < MaxOps
    /\ now' = now + 1
    /\ IF alertID \notin 1..Len(alerts)
       THEN /\ ret' = Ret("ResolveAlert", "ErrRecordNotFound", alertID, NoData, {})
            /\ history' = Append(history, [AlertID |-> alertID,
                                           Action |-> "resolved",
                                           Message |-> message])
            /\ UNCHANGED <<alerts, events, trail>>
       ELSE /\ alerts' = [alerts EXCEPT ![alertID].Status = "resolved",
                                        ![alertID].UpdatedAt = now + 1]
            /\ history' = Append(history, [AlertID |-> alertID,
                                           Action |-> "resolved",
                                           Message |-> message])
            /\ events' = Append(events,
                           [EventType |-> "alert_resolved",
                            Severity |-> "info",
                            Message |-> <<"resolved", alerts[alertID].Message>>,
                            Description |-> message,
                            Source |-> "alert_service",
                            HostName |-> alerts[alertID].HostName])
            /\ ret' = Ret("ResolveAlert", "nil", alertID, NoData, {})
                          @@ [message |-> message]
            /\ trail' = [trail EXCEPT ![alertID] = Append(@, "resolve")]
    /\ UNCHANGED <<rules, everReached>>
    /\ UNCHANGED engineFrame

\* AlertService.ResolveAlert(alertID, message)
ResolveAlert(alertID, message) ==
    /\ now < MaxOps
    /\ now' = now + 1
    /\ IF alertID \notin 1..Len(alerts)
       THEN /\ ret' = Ret("ResolveAlert", "ErrRecordNotFound", alertID, NoData, {})
            /\ UNCHANGED <<alerts, history, events, trail>>
       ELSE /\ alerts' = [alerts EXCEPT ![alertID].Status = "resolved",
                                        ![alertID].UpdatedAt = now + 1]
            /\ history' = Append(history, [AlertID |-> alertID,
                                           Action |-> "resolved",
                                           Message |-> message])
            /\ events' = Append(events,
                           [EventType |-> "alert_resolved",
                            Severity |-> "info",
                            Message |-> <<"resolved", alerts[alertID].Message>>,
                            Description |-> message,
                            Source |-> "alert_service",
                            HostName |-> alerts[alertID].HostName])
            /\ ret' = Ret("ResolveAlert", "nil", alertID, NoData, {})
                          @@ [message |-> message]
            /\ trail' = [trail EXCEPT ![alertID] = Append(@, "resolve")]
    /\ UNCHANGED <<rules, everReached>>
    /\ UNCHANGED engineFrame

\* AcknowledgeAlert acknowledging every active alert of the alert's host
AcknowledgeAlert_WholeHost(alertID, message) ==
    /\ now < MaxOps
    /\ now' = now + 1
    /\ IF alertID \notin 1..Len(alerts)
       THEN /\ ret' = Ret("AcknowledgeAlert", "ErrRecordNotFound", alertID, NoData, {})
            /\ UNCHANGED <<alerts, history, trail>>
       ELSE /\ alerts' = [i \in 1..Len(alerts) |->
                            IF \/ i = alertID
                               \/ /\ alerts[i].HostName = alerts[alertID].HostName
                                  /\ alerts[i].Status = "active"
                            THEN [alerts[i] EXCEPT !.Status = "acknowledged",
                                                   !.UpdatedAt = now + 1]
                            ELSE alerts[i]]
            /\ history' = Append(history, [AlertID |-> alertID,
                                           Action |-> "acknowledged",
                                           Message |-> message])
            /\ ret' = Ret("AcknowledgeAlert", "nil", alertID, NoData, {})
                          @@ [message |-> message]
            /\ trail' = [trail EXCEPT ![alertID] = Append(@, "acknowledge")]
    /\ UNCHANGED <<rules, events, everReached>>
    /\ UNCHANGED engineFrame

\* AcknowledgeAlert without its history row
AcknowledgeAlert_NoHistory(alertID, message) ==
    /\ now < MaxOps
    /\ now' = now + 1
    /\ IF alertID \notin 1..Len(alerts)
       THEN /\ ret' = Ret("AcknowledgeAlert", "ErrRecordNotFound", alertID, NoData, {})
            /\ UNCHANGED <<alerts, history, trail>>
       ELSE /\ alerts' = [alerts EXCEPT ![alertID].Status = "acknowledged",
                                        ![alertID].UpdatedAt = now + 1]
            /\ history' = history
            /\ ret' = Ret("AcknowledgeAlert", "nil", alertID, NoData, {})
                          @@ [message |-> message]
            /\ trail' = [trail EXCEPT ![alertID] = Append(@, "acknowledge")]
    /\ UNCHANGED <<rules, events, everReached>>
    /\ UNCHANGED engineFrame

\* AlertService.AcknowledgeAlert(alertID, message)
AcknowledgeAlert(alertID, message) ==
    /\ now < MaxOps
    /\ now' = now + 1
    /\ IF alertID \notin 1..Len(alerts)
       THEN /\ ret' = Ret("AcknowledgeAlert", "ErrRecordNotFound", alertID, NoData, {})
            /\ UNCHANGED <<alerts, history, trail>>
       ELSE /\ alerts' = [alerts EXCEPT ![alertID].Status = "acknowledged",
                                        ![alertID].UpdatedAt = now + 1]
            /\ history' = Append(history, [AlertID |-> alertID,
                                           Action |-> "acknowledged",
                                           Message |-> message])
            /\ ret' = Ret("AcknowledgeAlert", "nil", alertID, NoData, {})
                          @@ [message |-> message]
            /\ trail' = [trail EXCEPT ![alertID] = Append(@, "acknowledge")]
    /\ UNCHANGED <<rules, events, everReached>>
    /\ UNCHANGED engineFrame

----------------------------------------------------------------------------
(* The evaluation tick with its storage calls as separate steps *)

\* no tick in progress
Idle == [phase |-> "idle"]

\* the rules of rs for one metric type, as indices, in the order of rs
RulesFor(rs, metricType) ==
    SelectSeq([n \in 1..Len(rs) |-> n], LAMBDA n : rs[n].MetricType = metricType)

\* the rules the two loops of CheckAlerts come to, in the order they come to them
Remaining(order, rs) ==
    RulesFor(rs, order[1]) \o RulesFor(rs, order[2]) \o RulesFor(rs, order[3])

\* the tick after the rule at the head of its list is done
NextRule(tick) ==
    IF Len(tick.todo) = 1
    THEN Idle
    ELSE [tick EXCEPT !.phase = "lookup", !.todo = Tail(@),
                      !.existingAlert = << >>]

\* CheckAlerts up to its loops: the rules are read once, the readings are fixed
BeginCheckAlerts(data, order) ==
    /\ inflight = Idle
    /\ now < MaxOps
    /\ now' = now + 1
    /\ inflight' = [phase |-> "lookup", data |-> data, rs |-> GetAllRules(rules),
                    todo |-> Remaining(order, GetAllRules(rules)),
                    existingAlert |-> << >>]
    /\ ret' = Ret("BeginCheckAlerts", "nil", Nil, data, BreachedRules(data, rules))
    /\ everReached' = everReached \cup ReachedMetrics(data, rules)
    /\ UNCHANGED <<rules, alerts, history, events, trail>>
    /\ UNCHANGED tickFrame

\* the getActiveAlert call for the rule at the head of the list; a rule that
\* is not breached and has no active alert is done with it
LookupActiveAlert ==
    /\ inflight.phase = "lookup"
    /\ LET rule == inflight.rs[Head(inflight.todo)]
           existingAlert ==
               Loaded(alerts, getActiveAlert(alerts, rule.MetricType,
                                             rule.Severity, Hostname))
       IN  inflight' =
               IF /\ existingAlert = << >>
                  /\ ~Breached(inflight.data[rule.MetricType], rule)
               THEN NextRule(inflight)
               ELSE [inflight EXCEPT !.phase = "write",
                                     !.existingAlert = existingAlert]
    /\ UNCHANGED alertVars
    /\ UNCHANGED tickFrame

\* the createAlert or updateAlert call for the rule at the head of the list,
\* made with the alert the lookup loaded
WriteAlert ==
    /\ inflight.phase = "write"
    /\ LET rule == inflight.rs[Head(inflight.todo)]
           S == writeAlert(Store(alerts, history, events, {}), rule.MetricType,
                           inflight.data[rule.MetricType], rule,
                           inflight.existingAlert, now)
       IN  /\ alerts' = S.alerts
           /\ history' = S.history
           /\ events' = S.events
    /\ trail' = [i \in 1..Len(alerts') |->
                    IF i <= Len(alerts) THEN trail[i] ELSE <<"create">>]
    /\ inflight' = NextRule(inflight)
    /\ UNCHANGED <<rules, now, ret, everReached>>
    /\ UNCHANGED tickFrame

----------------------------------------------------------------------------
(* Rule administration *)

\* PUT /alert-rules/:metric_type/:severity/threshold
UpdateAlertRuleThreshold(metricType, severity, threshold) ==
    /\ now < MaxOps
    /\ now' = now + 1
    /\ LET targetRule == FirstIndex(GetAllRules(rules),
                             LAMBDA r : /\ r.MetricType = metricType
                                        /\ r.Severity = severity)
       IN  IF targetRule = Nil
           THEN /\ ret' = Ret("UpdateAlertRuleThreshold", "404", Nil, NoData, {})
                /\ UNCHANGED rules
           ELSE /\ rules' = [rules EXCEPT ![targetRule].Threshold = threshold]
                /\ ret' = Ret("UpdateAlertRuleThreshold", "200",
                              rules[targetRule].ID, NoData, {})
    /\ UNCHANGED <<alerts, history, events, everReached, trail>>
    /\ UNCHANGED engineFrame

\* POST /alert-rules/host; enabled is "nil" when the request leaves it out
CreateHostAlertRule(hostID, metricType, severity, threshold, duration, enabled) ==
    /\ now < MaxOps
    /\ now' = now + 1
    /\ LET allRules == GetAllRules(rules)
           existingRule == FirstIndex(allRules,
                             LAMBDA r : /\ r.HostID # Nil
                                        /\ r.HostID = hostID
                                        /\ r.MetricType = metricType
                                        /\ r.Severity = severity)
           templateRule == FirstIndex(allRules,
                             LAMBDA r : /\ r.HostID = Nil
                                        /\ r.MetricType = metricType
                                        /\ r.Severity = severity)
       IN  IF existingRule # Nil
           THEN /\ rules' = [rules EXCEPT
                     ![existingRule].Threshold = threshold,
                     ![existingRule].Duration =
                         IF duration > 0 THEN duration ELSE @,
                     ![existingRule].Enabled =
                         IF enabled # "nil" THEN enabled = "true" ELSE @]
                /\ ret' = Ret("CreateHostAlertRule", "200",
                              rules[existingRule].ID, NoData, {})
           ELSE IF templateRule = Nil
           THEN /\ ret' = Ret("CreateHostAlertRule", "404", Nil, NoData, {})
                /\ UNCHANGED rules
           ELSE /\ rules' = Append(rules,
                     Rule(Len(rules) + 1, metricType,
                          rules[templateRule].Operator, threshold,
                          IF duration = 0 THEN rules[templateRule].Duration
                                          ELSE duration,
                          severity,
                          IF enabled = "nil" THEN TRUE ELSE enabled = "true",
                          hostID))
                /\ ret' = Ret("CreateHostAlertRule", "201", Len(rules) + 1,
                              NoData, {})
    /\ UNCHANGED <<alerts, history, events, everReached, trail>>
    /\ UNCHANGED engineFrame

----------------------------------------------------------------------------
(* The sampling loop and its histories *)

\* monitorService.maxHistorySize, set by NewMonitorService
maxHistorySize == 20

HistoryKinds == {"cpu", "memory", "network"}

\* what cpu.Percent can return: an error, an empty list or one percentage
CpuAnswers == {[err |-> FALSE, percents |-> <<70>>],
               [err |-> FALSE, percents |-> <<80>>],
               [err |-> FALSE, percents |-> << >>],
               [err |-> TRUE,  percents |-> << >>]}

\* what mem.VirtualMemory can return; Used is in GiB
MemAnswers == {[err |-> FALSE, UsedPercent |-> 70, Used |-> 7],
               [err |-> FALSE, UsedPercent |-> 80, Used |-> 8],
               [err |-> TRUE,  UsedPercent |-> 0,  Used |-> 0]}

\* what net.IOCounters can return: an error, an empty list or the totals
NetAnswers == {[err |-> FALSE, stats |-> <<[BytesSent |-> 1000, BytesRecv |-> 2002]>>],
               [err |-> FALSE, stats |-> <<[BytesSent |-> 1503, BytesRecv |-> 3004]>>],
               [err |-> FALSE, stats |-> << >>],
               [err |-> TRUE,  stats |-> << >>]}

\* the number of answers that are not the answer of a quiet host
Deviations(cpuPercents, vmStat, netStats) ==
    (IF cpuPercents = [err |-> FALSE, percents |-> <<70>>] THEN 0 ELSE 1)
    + (IF vmStat = [err |-> FALSE, UsedPercent |-> 70, Used |-> 7] THEN 0 ELSE 1)
    + (IF netStats = [err |-> FALSE,
                      stats |-> <<[BytesSent |-> 1000, BytesRecv |-> 2002]>>]
       THEN 0 ELSE 1)

\* append off by one: the oldest point is dropped when the history is just full
appendHistory_OffByOne(h, point) ==
    LET appended == Append(h, point)
    IN  IF Len(appended) >= maxHistorySize THEN Tail(appended) ELSE appended

\* append(history, point), then drop the oldest point when over capacity
appendHistory(h, point) ==
    LET appended == Append(h, point)
    IN  IF Len(appended) > maxHistorySize THEN Tail(appended) ELSE appended

\* the sampling tick pushing a memory point whether or not the read succeeded
collectHistoricalData_PushOnError(cpuPercents, vmStat, netStats) ==
    /\ sampled < MaxSamples
    /\ deviations + Deviations(cpuPercents, vmStat, netStats) <= MaxDeviations
    /\ deviations' = deviations + Deviations(cpuPercents, vmStat, netStats)
    /\ sampled' = sampled + 1
    /\ LET t == sampled + 1
           cpuOK == ~cpuPercents.err /\ Len(cpuPercents.percents) > 0
           memOK == TRUE
           netOK == ~netStats.err /\ Len(netStats.stats) > 0
           cpuPoint == [Timestamp |-> t, Usage |-> cpuPercents.percents[1]]
           memPoint == [Timestamp |-> t, UsagePercent |-> vmStat.UsedPercent,
                        Used |-> vmStat.Used]
           netPoint == [Timestamp |-> t,
                        BytesSentPerSec |-> netStats.stats[1].BytesSent \div 5,
                        BytesRecvPerSec |-> netStats.stats[1].BytesRecv \div 5]
       IN  /\ cpuHistory' = IF cpuOK THEN appendHistory(cpuHistory, cpuPoint)
                                     ELSE cpuHistory
           /\ memoryHistory' = IF memOK THEN appendHistory(memoryHistory, memPoint)
                                        ELSE memoryHistory
           /\ networkHistory' = IF netOK THEN appendHistory(networkHistory, netPoint)
                                         ELSE networkHistory
           /\ pushed' = [pushed EXCEPT
                  !["cpu"] = IF cpuOK THEN Append(@, cpuPoint) ELSE @,
                  !["memory"] = IF memOK THEN Append(@, memPoint) ELSE @,
                  !["network"] = IF netOK THEN Append(@, netPoint) ELSE @]
    /\ failed' = {kind \in HistoryKinds :
                      \/ kind = "cpu" /\ cpuPercents.err
                      \/ kind = "memory" /\ vmStat.err
                      \/ kind = "network" /\ netStats.err}
    /\ UNCHANGED samplerFrame

\* one sampling tick: monitorService.collectHistoricalData()
collectHistoricalData(cpuPercents, vmStat, netStats) ==
    /\ sampled < MaxSamples
    /\ deviations + Deviations(cpuPercents, vmStat, netStats) <= MaxDeviations
    /\ deviations' = deviations + Deviations(cpuPercents, vmStat, netStats)
    /\ sampled' = sampled + 1
    /\ LET t == sampled + 1
           cpuOK == ~cpuPercents.err /\ Len(cpuPercents.percents) > 0
           memOK == ~vmStat.err
           netOK == ~netStats.err /\ Len(netStats.stats) > 0
           cpuPoint == [Timestamp |-> t, Usage |-> cpuPercents.percents[1]]
           memPoint == [Timestamp |-> t, UsagePercent |-> vmStat.UsedPercent,
                        Used |-> vmStat.Used]
           netPoint == [Timestamp |-> t,
                        BytesSentPerSec |-> netStats.stats[1].BytesSent \div 5,
                        BytesRecvPerSec |-> netStats.stats[1].BytesRecv \div 5]
       IN  /\ cpuHistory' = IF cpuOK THEN appendHistory(cpuHistory, cpuPoint)
                                     ELSE cpuHistory
           /\ memoryHistory' = IF memOK THEN appendHistory(memoryHistory, memPoint)
                                        ELSE memoryHistory
           /\ networkHistory' = IF netOK THEN appendHistory(networkHistory, netPoint)
                                         ELSE networkHistory
           /\ pushed' = [pushed EXCEPT
                  !["cpu"] = IF cpuOK THEN Append(@, cpuPoint) ELSE @,
                  !["memory"] = IF memOK THEN Append(@, memPoint) ELSE @,
                  !["network"] = IF netOK THEN Append(@, netPoint) ELSE @]
    /\ failed' = {kind \in HistoryKinds :
                      \/ kind = "cpu" /\ cpuPercents.err
                      \/ kind = "memory" /\ vmStat.err
                      \/ kind = "network" /\ netStats.err}
    /\ UNCHANGED samplerFrame

----------------------------------------------------------------------------
(* The sampling tick and the history readers under monitorService.mu *)

\* the goroutines of the HTTP handlers that read a history
Readers == {1, 2}

\* the goroutines that call AlertDetector.Start
Callers == {1, 2}

\* no sampling tick in progress
Resting == [phase |-> "idle"]

\* a reader that has made no call yet
NoCall == [phase |-> "idle", kind |-> "cpu", history |-> << >>, calls |-> 0]

\* the order of the three blocks of collectHistoricalData
KindOrder == <<"cpu", "memory", "network">>

\* the condition under which the block of a kind pushes
ReadOK(kind, answer) ==
    CASE kind = "cpu"     -> ~answer.err /\ Len(answer.percents) > 0
      [] kind = "memory"  -> ~answer.err
      [] kind = "network" -> ~answer.err /\ Len(answer.stats) > 0

\* the point the block of a kind pushes
Point(kind, answer, t) ==
    CASE kind = "cpu"     -> [Timestamp |-> t, Usage |-> answer.percents[1]]
      [] kind = "memory"  -> [Timestamp |-> t,
                              UsagePercent |-> answer.UsedPercent,
                              Used |-> answer.Used]
      [] kind = "network" -> [Timestamp |-> t,
                              BytesSentPerSec |-> answer.stats[1].BytesSent \div 5,
                              BytesRecvPerSec |-> answer.stats[1].BytesRecv \div 5]

\* the tick at the Lock call of the first block from the n-th on whose read
\* succeeded, or done when there is none
NextBlock(tick, n) ==
    IF \E i \in n..3 : ReadOK(KindOrder[i], tick.answers[i])
    THEN LET i == CHOOSE i \in n..3 :
                      /\ ReadOK(KindOrder[i], tick.answers[i])
                      /\ \A j \in n..(i-1) : ~ReadOK(KindOrder[j], tick.answers[j])
         IN  [tick EXCEPT !.phase = "lock", !.block = i]
    ELSE Resting

\* the history of a kind, and the histories with that one replaced
Histories == [cpu |-> cpuHistory, memory |-> memoryHistory,
              network |-> networkHistory]

\* collectHistoricalData takes the time and makes its OS reads
BeginCollect(cpuPercents, vmStat, netStats) ==
    /\ sampling = Resting
    /\ sampled < MaxSamples
    /\ deviations + Deviations(cpuPercents, vmStat, netStats) <= MaxDeviations
    /\ deviations' = deviations + Deviations(cpuPercents, vmStat, netStats)
    /\ sampled' = sampled + 1
    /\ failed' = {kind \in HistoryKinds :
                      \/ kind = "cpu" /\ cpuPercents.err
                      \/ kind = "memory" /\ vmStat.err
                      \/ kind = "network" /\ netStats.err}
    /\ sampling' = NextBlock([phase |-> "read", block |-> 1, t |-> sampled + 1,
                              answers |-> <<cpuPercents, vmStat, netStats>>], 1)
    /\ UNCHANGED <<cpuHistory, memoryHistory, networkHistory, pushed, mu, gets>>
    /\ UNCHANGED readFrame

\* s.mu.Lock() returns: no reader and no writer holds the mutex
Lock ==
    /\ sampling.phase = "lock"
    /\ mu.readers = {}
    /\ ~mu.writer
    /\ mu' = [mu EXCEPT !.writer = TRUE]
    /\ sampling' = [sampling EXCEPT !.phase = "append"]
    /\ UNCHANGED <<samplerVars, gets>>
    /\ UNCHANGED readFrame

\* history = append(history, point)
AppendPoint ==
    /\ sampling.phase = "append"
    /\ LET kind == KindOrder[sampling.block]
           point == Point(kind, sampling.answers[sampling.block], sampling.t)
       IN  /\ cpuHistory' = IF kind = "cpu" THEN Append(cpuHistory, point)
                                            ELSE cpuHistory
           /\ memoryHistory' = IF kind = "memory"
                                 THEN Append(memoryHistory, point)
                                 ELSE memoryHistory
           /\ networkHistory' = IF kind = "network"
                                  THEN Append(networkHistory, point)
                                  ELSE networkHistory
           /\ pushed' = [pushed EXCEPT ![kind] = Append(@, point)]
    /\ sampling' = [sampling EXCEPT !.phase = "trim"]
    /\ UNCHANGED <<sampled, deviations, failed, mu, gets>>
    /\ UNCHANGED readFrame

\* if len(history) > maxHistorySize { history = history[1:] }
TrimHistory ==
    /\ sampling.phase = "trim"
    /\ LET kind == KindOrder[sampling.block]
           Trim(h) == IF Len(h) > maxHistorySize THEN Tail(h) ELSE h
       IN  /\ cpuHistory' = IF kind = "cpu" THEN Trim(cpuHistory) ELSE cpuHistory
           /\ memoryHistory' = IF kind = "memory" THEN Trim(memoryHistory)
                                                  ELSE memoryHistory
           /\ networkHistory' = IF kind = "network" THEN Trim(networkHistory)
                                                    ELSE networkHistory
    /\ sampling' = [sampling EXCEPT !.phase = "unlock"]
    /\ UNCHANGED <<pushed, sampled, deviations, failed, mu, gets>>
    /\ UNCHANGED readFrame

\* s.mu.Unlock(), and on to the next block
Unlock ==
    /\ sampling.phase = "unlock"
    /\ mu' = [mu EXCEPT !.writer = FALSE]
    /\ sampling' = IF sampling.block = 3 THEN Resting
                   ELSE NextBlock(sampling, sampling.block + 1)
    /\ UNCHANGED <<samplerVars, gets>>
    /\ UNCHANGED readFrame

\* the Get...Data calls made so far
TotalCalls == gets[1].calls + gets[2].calls

\* the reader going on without the mutex
RLock_NoMutex(r, kind) ==
    /\ gets[r].phase \in {"idle", "returned"}
    /\ TotalCalls < MaxReads
    /\ gets' = [gets EXCEPT ![r] = [phase |-> "make", kind |-> kind,
                                    history |-> << >>, calls |-> @.calls + 1]]
    /\ UNCHANGED <<samplerVars, sampling, mu>>
    /\ UNCHANGED readFrame

\* GetCPUData, GetMemoryData or GetNetworkData up to the return of
\* s.mu.RLock(): the writer does not hold the mutex and is not waiting for it
RLock(r, kind) ==
    /\ gets[r].phase \in {"idle", "returned"}
    /\ TotalCalls < MaxReads
    /\ ~mu.writer
    /\ sampling.phase # "lock"
    /\ mu' = [mu EXCEPT !.readers = @ \cup {r}]
    /\ gets' = [gets EXCEPT ![r] = [phase |-> "make", kind |-> kind,
                                    history |-> << >>, calls |-> @.calls + 1]]
    /\ UNCHANGED <<samplerVars, sampling>>
    /\ UNCHANGED readFrame

\* history := make([]T, len(s.history)): zero values
MakeHistory(r) ==
    /\ gets[r].phase = "make"
    /\ gets' = [gets EXCEPT
                  ![r].phase = "copy",
                  ![r].history = [i \in 1..Len(Histories[gets[r].kind]) |-> Nil]]
    /\ UNCHANGED <<samplerVars, sampling, mu>>
    /\ UNCHANGED readFrame

\* copy(history, s.history): as many elements as the shorter of the two has
CopyHistory(r) ==
    /\ gets[r].phase = "copy"
    /\ gets' = [gets EXCEPT
                  ![r].phase = "unlock",
                  ![r].history =
                      [i \in 1..Len(@) |->
                          IF i <= Len(Histories[gets[r].kind])
                          THEN Histories[gets[r].kind][i] ELSE @[i]]]
    /\ UNCHANGED <<samplerVars, sampling, mu>>
    /\ UNCHANGED readFrame

\* s.mu.RUnlock() and the return of the copy
RUnlock(r) ==
    /\ gets[r].phase = "unlock"
    /\ mu' = [mu EXCEPT !.readers = @ \ {r}]
    /\ gets' = [gets EXCEPT ![r].phase = "returned"]
    /\ UNCHANGED <<samplerVars, sampling>>
    /\ UNCHANGED readFrame

----------------------------------------------------------------------------
(* The evaluation loop and the sampling loop *)

\* how a tick can end: it returns, or something in it panics
Outcomes == {"return", "panic"}

\* the process is up: no goroutine has ended in a panic that nothing recovers
Up == collector # "panicked"

\* time.Ticker: a tick that fires while one is still waiting in C is dropped
Fire(t) == [t EXCEPT !.C = 1]

\* AlertDetector.Start without its first evaluation
Start_NoFirstCheck ==
    /\ Up
    /\ count.starts < MaxStarts
    /\ IF running
       THEN /\ count' = [count EXCEPT !.starts = @ + 1]
            /\ UNCHANGED <<running, ticker, loop, signals>>
       ELSE /\ running' = TRUE
            /\ ticker' = [active |-> TRUE, C |-> 0]
            /\ loop' = "select"
            /\ count' = [count EXCEPT !.starts = @ + 1, !.fired = 0,
                                      !.dropped = 0, !.taken = 0,
                                      !.evaluations = 0]
            /\ signals' = {}
    /\ UNCHANGED <<stopCh, ctxDone, collectTicker, stopCollection, collector>>
    /\ UNCHANGED loopFrame

\* AlertDetector.Start: nothing on a running detector; else a new ticker and
\* a goroutine that begins with a call of checkAlerts
Start ==
    /\ Up
    /\ count.starts < MaxStarts
    /\ IF running
       THEN /\ count' = [count EXCEPT !.starts = @ + 1]
            /\ UNCHANGED <<running, ticker, loop, signals>>
       ELSE /\ running' = TRUE
            /\ ticker' = [active |-> TRUE, C |-> 0]
            /\ loop' = "first check"
            /\ count' = [count EXCEPT !.starts = @ + 1, !.fired = 0,
                                      !.dropped = 0, !.taken = 0,
                                      !.evaluations = 1]
            /\ signals' = {}
    /\ UNCHANGED <<stopCh, ctxDone, collectTicker, stopCollection, collector>>
    /\ UNCHANGED loopFrame

\* checkAlerts comes back to the loop: a panic in it is recovered by its
\* deferred function
checkAlertsEnds(outcome) ==
    /\ Up
    /\ loop \in {"first check", "check"}
    /\ loop' = "select"
    /\ count' = [count EXCEPT !.panics.evaluation =
                                  IF outcome = "panic" THEN @ + 1 ELSE @]
    /\ UNCHANGED <<running, stopCh, ctxDone, ticker, collectTicker,
                   stopCollection, collector, signals>>
    /\ UNCHANGED loopFrame

\* the ticker of the detector fires
TickerFires ==
    /\ Up
    /\ ticker.active
    /\ count.timers < MaxFires
    /\ ticker' = Fire(ticker)
    /\ count' = [count EXCEPT !.timers = @ + 1, !.fired = @ + 1,
                              !.dropped = IF ticker.C = 1 THEN @ + 1 ELSE @]
    /\ UNCHANGED <<running, stopCh, ctxDone, loop, collectTicker,
                   stopCollection, collector, signals>>
    /\ UNCHANGED loopFrame

\* the select of the evaluation loop takes the case <-d.ticker.C
SelectTick ==
    /\ Up
    /\ loop = "select"
    /\ ticker.C = 1
    /\ ticker' = [ticker EXCEPT !.C = 0]
    /\ loop' = "check"
    /\ count' = [count EXCEPT !.taken = @ + 1, !.evaluations = @ + 1]
    /\ UNCHANGED <<running, stopCh, ctxDone, collectTicker, stopCollection,
                   collector, signals>>
    /\ UNCHANGED loopFrame

\* the select takes <-ctx.Done() or <-d.stopCh: the goroutine returns and its
\* deferred function stops the ticker and clears running
SelectStop ==
    /\ Up
    /\ loop = "select"
    /\ ctxDone \/ stopCh = "closed"
    /\ loop' = "exited"
    /\ ticker' = [ticker EXCEPT !.active = FALSE]
    /\ running' = FALSE
    /\ UNCHANGED <<stopCh, ctxDone, collectTicker, stopCollection, collector,
                   count, signals>>
    /\ UNCHANGED loopFrame

\* close(ch) panics on a channel that is closed already
Close(ch) == IF ch = "closed" THEN {"panic: close of closed channel"} ELSE {}

\* AlertDetector.Stop: nothing on a detector that is not running
Stop ==
    /\ Up
    /\ stopCh' = IF running THEN "closed" ELSE stopCh
    /\ signals' = IF running THEN signals \cup {"Stop"} \cup Close(stopCh)
                             ELSE signals
    /\ UNCHANGED <<running, ctxDone, ticker, loop, collectTicker,
                   stopCollection, collector, count>>
    /\ UNCHANGED loopFrame

\* AlertDetectorManager.Stop: m.cancel(), then m.detector.Stop()
ManagerStop ==
    /\ Up
    /\ ctxDone' = TRUE
    /\ stopCh' = IF running THEN "closed" ELSE stopCh
    /\ signals' = signals \cup {"ManagerStop"}
                          \cup (IF running THEN Close(stopCh) ELSE {})
    /\ UNCHANGED <<running, ticker, loop, collectTicker, stopCollection,
                   collector, count>>
    /\ UNCHANGED loopFrame

\* a call inside checkAlerts (an OS read of getCurrentMonitoringData, a
\* storage call of CheckAlerts) never returns: none of them carries a timeout
\* or a context that is ever cancelled, the goroutine stays in the call
checkAlertsHangs ==
    /\ Up
    /\ loop \in {"first check", "check"}
    /\ loop' = "hung"
    /\ UNCHANGED <<running, stopCh, ctxDone, ticker, collectTicker,
                   stopCollection, collector, count, signals>>
    /\ UNCHANGED loopFrame

\* an OS read inside collectHistoricalData never returns
collectHangs ==
    /\ Up
    /\ collector = "collect"
    /\ collector' = "hung"
    /\ UNCHANGED <<running, stopCh, ctxDone, ticker, loop, collectTicker,
                   stopCollection, count, signals>>
    /\ UNCHANGED loopFrame

\* AlertDetector.Start, its first statement: the test of d.running, made
\* without a lock; the call returns when it reads true
StartReadsRunning(c) ==
    /\ Up
    /\ calls[c] = "idle"
    /\ count.starts < MaxStarts
    /\ count' = [count EXCEPT !.starts = @ + 1]
    /\ calls' = [calls EXCEPT ![c] = IF running THEN "idle" ELSE "checked"]
    /\ UNCHANGED <<running, stopCh, ctxDone, ticker, loop, collectTicker,
                   stopCollection, collector, signals>>
    /\ UNCHANGED <<alertVars, samplerVars, inflight, readVars>>
    /\ UNCHANGED <<config, interval, loops>>

\* AlertDetector.Start, the statements after the test: d.running = true, a
\* new ticker, and the go statement
StartLaunches(c) ==
    /\ Up
    /\ calls[c] = "checked"
    /\ calls' = [calls EXCEPT ![c] = "idle"]
    /\ running' = TRUE
    /\ ticker' = [active |-> TRUE, C |-> 0]
    /\ loops' = loops + 1
    /\ signals' = {}
    /\ UNCHANGED <<stopCh, ctxDone, loop, collectTicker, stopCollection,
                   collector, count>>
    /\ UNCHANGED <<alertVars, samplerVars, inflight, readVars>>
    /\ UNCHANGED <<config, interval>>

\* one of the goroutines takes <-ctx.Done() or <-d.stopCh and returns: its
\* deferred function stops d.ticker and clears d.running
LoopReturns ==
    /\ Up
    /\ loops > 0
    /\ ctxDone \/ stopCh = "closed"
    /\ loops' = loops - 1
    /\ ticker' = [ticker EXCEPT !.active = FALSE]
    /\ running' = FALSE
    /\ UNCHANGED <<stopCh, ctxDone, loop, collectTicker, stopCollection,
                   collector, count, signals>>
    /\ UNCHANGED <<alertVars, samplerVars, inflight, readVars>>
    /\ UNCHANGED <<config, interval, calls>>

\* the characters a stored value of alert_check_interval is made of
Chars == {"-", "0", "3", "m", "x"}

\* the strings of at most n characters
Strings(n) == UNION {[1..k -> Chars] : k \in 0..n}

\* configRepo.GetByKey found no row
NoConfig == [found |-> FALSE, Value |-> << >>]

\* what table monitoring_configs can hold under the key alert_check_interval
StoredValues ==
    {NoConfig} \cup {[found |-> TRUE, Value |-> v] : v \in Strings(MaxValueLen)}

IsDigit(c) == c \in {"0", "3"}

\* the number of digits a string begins with
LeadingDigits(str) ==
    CHOOSE n \in 0..Len(str) :
        /\ \A i \in 1..n : IsDigit(str[i])
        /\ n = Len(str) \/ ~IsDigit(str[n + 1])

\* the number of characters before the next digit: the unit of a component
UnitLength(str) ==
    CHOOSE n \in 0..Len(str) :
        /\ \A i \in 1..n : ~IsDigit(str[i])
        /\ n = Len(str) \/ IsDigit(str[n + 1])

\* the number a string of digits denotes
RECURSIVE leadingInt(_)
leadingInt(digits) ==
    IF digits = << >> THEN 0
    ELSE 10 * leadingInt(SubSeq(digits, 1, Len(digits) - 1))
           + (IF digits[Len(digits)] = "3" THEN 3 ELSE 0)

\* time.unitMap in milliseconds, for the units the characters can spell;
\* 0 for a string that is no unit
unitMap(u) ==
    CASE u = <<"s">>      -> 1000
      [] u = <<"m", "s">> -> 1
      [] u = <<"m">>      -> 60000
      [] OTHER            -> 0

\* the loop of time.ParseDuration over the components <digits><unit>: their
\* sum in milliseconds, or -1 for a string that is no duration
RECURSIVE ParseComponents(_)
ParseComponents(str) ==
    IF str = << >> THEN 0
    ELSE LET n == LeadingDigits(str)
             rest == SubSeq(str, n + 1, Len(str))
             u == UnitLength(rest)
             unit == unitMap(SubSeq(rest, 1, u))
             tail == ParseComponents(SubSeq(rest, u + 1, Len(rest)))
         IN  IF n = 0 \/ u = 0 \/ unit = 0 THEN -1
             ELSE IF tail = -1 THEN -1
             ELSE leadingInt(SubSeq(str, 1, n)) * unit + tail

\* time.ParseDuration: an optional sign, then "0" or one or more components
ParseDuration(str) ==
    LET signed == str # << >> /\ str[1] = "-"
        body == IF signed THEN Tail(str) ELSE str
        d == ParseComponents(body)
    IN  IF body = <<"0">> THEN [err |-> FALSE, d |-> 0]
        ELSE IF body = << >> \/ d = -1 THEN [err |-> TRUE, d |-> 0]
        ELSE [err |-> FALSE, d |-> IF signed THEN 0 - d ELSE d]

\* the 30 seconds AlertDetectorManager.Start begins with
DefaultInterval == 30000

\* the interval AlertDetectorManager.Start hands to the detector
StartInterval(cfg) ==
    LET parsed == ParseDuration(cfg.Value \o <<"s">>)
    IN  IF cfg.found /\ cfg.Value # << >> /\ ~parsed.err
        THEN parsed.d
        ELSE DefaultInterval

\* time.NewTicker(d) panics unless d is positive
NewTicker(d) ==
    IF d <= 0 THEN {"panic: non-positive interval for NewTicker"} ELSE {}

\* AlertDetectorManager.Start: the interval from the stored value, then
\* AlertDetector.Start, which sets running before time.NewTicker and starts
\* its goroutine after it; a panic of NewTicker leaves Start at once
ManagerStart ==
    /\ Up
    /\ count.starts < MaxStarts
    /\ IF running
       THEN /\ count' = [count EXCEPT !.starts = @ + 1]
            /\ UNCHANGED <<running, ticker, loop, signals, interval>>
       ELSE /\ running' = TRUE
            /\ interval' = StartInterval(config)
            /\ IF NewTicker(StartInterval(config)) # {}
               THEN /\ signals' = NewTicker(StartInterval(config))
                    /\ count' = [count EXCEPT !.starts = @ + 1]
                    /\ UNCHANGED <<ticker, loop>>
               ELSE /\ ticker' = [active |-> TRUE, C |-> 0]
                    /\ loop' = "first check"
                    /\ count' = [count EXCEPT !.starts = @ + 1, !.fired = 0,
                                              !.dropped = 0, !.taken = 0,
                                              !.evaluations = 1]
                    /\ signals' = {}
    /\ UNCHANGED <<stopCh, ctxDone, collectTicker, stopCollection, collector>>
    /\ UNCHANGED <<alertVars, samplerVars, inflight, readVars>>
    /\ UNCHANGED <<config, calls, loops>>

\* the ticker of the sampling loop fires
CollectTickerFires ==
    /\ Up
    /\ collectTicker.active
    /\ count.timers < MaxFires
    /\ collectTicker' = Fire(collectTicker)
    /\ count' = [count EXCEPT !.timers = @ + 1]
    /\ UNCHANGED <<running, stopCh, ctxDone, ticker, loop, stopCollection,
                   collector, signals>>
    /\ UNCHANGED loopFrame

\* the select of the sampling loop takes the case <-s.collectTicker.C
SelectCollect ==
    /\ Up
    /\ collector = "select"
    /\ collectTicker.C = 1
    /\ collectTicker' = [collectTicker EXCEPT !.C = 0]
    /\ collector' = "collect"
    /\ count' = [count EXCEPT !.samples = @ + 1]
    /\ UNCHANGED <<running, stopCh, ctxDone, ticker, loop, stopCollection,
                   signals>>
    /\ UNCHANGED loopFrame

\* collectHistoricalData comes back to the loop, or panics: nothing on the
\* goroutine recovers, the panic ends it
collectEnds(outcome) ==
    /\ Up
    /\ collector = "collect"
    /\ collector' = IF outcome = "panic" THEN "panicked" ELSE "select"
    /\ count' = [count EXCEPT !.panics.sampling =
                                  IF outcome = "panic" THEN @ + 1 ELSE @]
    /\ UNCHANGED <<running, stopCh, ctxDone, ticker, loop, collectTicker,
                   stopCollection, signals>>
    /\ UNCHANGED loopFrame

\* the select takes <-s.stopCollection: the goroutine returns
SelectStopCollection ==
    /\ Up
    /\ collector = "select"
    /\ stopCollection = "closed"
    /\ collector' = "exited"
    /\ UNCHANGED <<running, stopCh, ctxDone, ticker, loop, collectTicker,
                   stopCollection, count, signals>>
    /\ UNCHANGED loopFrame

\* monitorService.StopHistoryCollection
StopHistoryCollection ==
    /\ Up
    /\ collectTicker' = [collectTicker EXCEPT !.active = FALSE]
    /\ stopCollection' = "closed"
    /\ signals' = signals \cup {"StopHistoryCollection"}
                          \cup Close(stopCollection)
    /\ UNCHANGED <<running, stopCh, ctxDone, ticker, loop, collector, count>>
    /\ UNCHANGED loopFrame

----------------------------------------------------------------------------

Init ==
    /\ rules = InitializeDefaultAlertRules
    /\ alerts = << >>
    /\ history = << >>
    /\ events = << >>
    /\ now = 0
    /\ ret = Ret("none", "nil", Nil, NoData, {})
    /\ everReached = {}
    /\ trail = << >>
    /\ cpuHistory = << >>
    /\ memoryHistory = << >>
    /\ networkHistory = << >>
    /\ pushed = [k \in HistoryKinds |-> << >>]
    /\ sampled = 0
    /\ deviations = 0
    /\ failed = {}
    /\ inflight = Idle
    /\ running = FALSE
    /\ stopCh = "open"
    /\ ctxDone = FALSE
    /\ ticker = [active |-> FALSE, C |-> 0]
    /\ loop = "none"
    /\ collectTicker = [active |-> TRUE, C |-> 0]
    /\ stopCollection = "open"
    /\ collector = "select"
    /\ count = [fired |-> 0, dropped |-> 0, taken |-> 0, evaluations |-> 0,
                samples |-> 0, starts |-> 0, timers |-> 0,
                panics |-> [evaluation |-> 0, sampling |-> 0]]
    /\ signals = {}
    /\ mu = [readers |-> {}, writer |-> FALSE]
    /\ sampling = Resting
    /\ gets = [r \in Readers |-> NoCall]
    /\ config = NoConfig
    /\ interval = 0
    /\ calls = [c \in Callers |-> "idle"]
    /\ loops = 0

Next ==
    \/ \E data \in [Metrics -> Readings], order \in MetricOrders :
           CheckAlerts(data, order, {})
    \/ \E alertID \in 1..(Len(alerts) + 1), message \in Messages :
           ResolveAlert(alertID, message)
    \/ \E alertID \in 1..(Len(alerts) + 1), message \in Messages :
           AcknowledgeAlert(alertID, message)
    \/ \E metricType \in AdminMetrics, severity \in AdminSeverities,
          threshold \in NewThresholds :
           UpdateAlertRuleThreshold(metricType, severity, threshold)
    \/ \E hostID \in HostIDs, metricType \in AdminMetrics,
          severity \in AdminSeverities, threshold \in NewThresholds,
          enabled \in {"nil", "true", "false"} :
           CreateHostAlertRule(hostID, metricType, severity, threshold, 0, enabled)

Spec == Init /\ [][Next]_vars

\* the faults one tick can meet: none, or one storage call failing for the
\* cpu warning alert
FaultSets ==
    {{}} \cup {{<<"cpu", "warning", kind>>} : kind \in FaultKinds}

\* the readings of the ticks on the failing storage: the disk stays quiet
FaultyData == {d \in [Metrics -> Readings] : d["disk"] = 70}

\* the iteration orders of those ticks: the disk comes last
FaultyOrders == {o \in MetricOrders : o[3] = "disk"}

\* the alert engine on a storage whose calls can fail during a tick
NextFaulty ==
    \/ \E data \in FaultyData, order \in FaultyOrders, faults \in FaultSets :
           CheckAlerts(data, order, faults)
    \/ \E alertID \in 1..(Len(alerts) + 1) : ResolveAlert(alertID, "fixed")
    \/ \E metricType \in AdminMetrics, severity \in AdminSeverities,
          threshold \in NewThresholds :
           UpdateAlertRuleThreshold(metricType, severity, threshold)

SpecFaulty == Init /\ [][NextFaulty]_vars

\* the readings of the ticks that race with operator calls: only the cpu moves
RaceData == {d \in [Metrics -> Readings] : d["memory"] = 70 /\ d["disk"] = 70}

\* the alert engine with the storage calls of a tick interleaved with the
\* acknowledge and resolve requests of operators
NextRace ==
    \/ \E data \in RaceData, order \in MetricOrders : BeginCheckAlerts(data, order)
    \/ LookupActiveAlert
    \/ WriteAlert
    \/ \E alertID \in 1..Len(alerts), message \in Messages :
           ResolveAlert(alertID, message)
    \/ \E alertID \in 1..Len(alerts), message \in Messages :
           AcknowledgeAlert(alertID, message)

SpecRace == Init /\ [][NextRace]_vars

\* the two loops, their tickers and the calls that start and stop them; an
\* unrecovered panic ends the process
NextLoops ==
    \/ Start
    \/ \E outcome \in Outcomes : checkAlertsEnds(outcome)
    \/ TickerFires
    \/ SelectTick
    \/ SelectStop
    \/ Stop
    \/ ManagerStop
    \/ CollectTickerFires
    \/ SelectCollect
    \/ \E outcome \in Outcomes : collectEnds(outcome)
    \/ SelectStopCollection
    \/ StopHistoryCollection

SpecLoops == Init /\ [][NextLoops]_vars

\* the points of a quiet host for the first n sampling ticks
QuietPoints(kind, n) ==
    [t \in 1..n |->
        Point(kind,
              CASE kind = "cpu"     -> [err |-> FALSE, percents |-> <<70>>]
                [] kind = "memory"  -> [err |-> FALSE, UsedPercent |-> 70, Used |-> 7]
                [] kind = "network" ->
                       [err |-> FALSE,
                        stats |-> <<[BytesSent |-> 1000, BytesRecv |-> 2002]>>],
              t)]

\* the service after its first sampling ticks, all on a quiet host
InitReaders ==
    /\ rules = InitializeDefaultAlertRules
    /\ alerts = << >>
    /\ history = << >>
    /\ events = << >>
    /\ now = 0
    /\ ret = Ret("none", "nil", Nil, NoData, {})
    /\ everReached = {}
    /\ trail = << >>
    /\ cpuHistory = QuietPoints("cpu", Prefilled)
    /\ memoryHistory = QuietPoints("memory", Prefilled)
    /\ networkHistory = QuietPoints("network", Prefilled)
    /\ pushed = [k \in HistoryKinds |-> QuietPoints(k, Prefilled)]
    /\ sampled = Prefilled
    /\ deviations = 0
    /\ failed = {}
    /\ inflight = Idle
    /\ running = FALSE
    /\ stopCh = "open"
    /\ ctxDone = FALSE
    /\ ticker = [active |-> FALSE, C |-> 0]
    /\ loop = "none"
    /\ collectTicker = [active |-> TRUE, C |-> 0]
    /\ stopCollection = "open"
    /\ collector = "select"
    /\ count = [fired |-> 0, dropped |-> 0, taken |-> 0, evaluations |-> 0,
                samples |-> 0, starts |-> 0, timers |-> 0,
                panics |-> [evaluation |-> 0, sampling |-> 0]]
    /\ signals = {}
    /\ mu = [readers |-> {}, writer |-> FALSE]
    /\ sampling = Resting
    /\ gets = [r \in Readers |-> NoCall]
    /\ config = NoConfig
    /\ interval = 0
    /\ calls = [c \in Callers |-> "idle"]
    /\ loops = 0

\* the sampling tick step by step, next to the readers of the histories
NextReaders ==
    \/ \E cpuPercents \in CpuAnswers, vmStat \in MemAnswers, netStats \in NetAnswers :
           BeginCollect(cpuPercents, vmStat, netStats)
    \/ Lock
    \/ AppendPoint
    \/ TrimHistory
    \/ Unlock
    \/ \E r \in Readers, kind \in HistoryKinds : RLock(r, kind)
    \/ \E r \in Readers : MakeHistory(r)
    \/ \E r \in Readers : CopyHistory(r)
    \/ \E r \in Readers : RUnlock(r)

SpecReaders == InitReaders /\ [][NextReaders]_vars

\* the two loops with external calls that may never return
NextHang ==
    \/ Start
    \/ \E outcome \in Outcomes : checkAlertsEnds(outcome)
    \/ checkAlertsHangs
    \/ TickerFires
    \/ SelectTick
    \/ SelectStop
    \/ Stop
    \/ ManagerStop
    \/ CollectTickerFires
    \/ SelectCollect
    \/ \E outcome \in Outcomes : collectEnds(outcome)
    \/ collectHangs
    \/ SelectStopCollection
    \/ StopHistoryCollection

\* a call that can return does, and a select whose stop case is ready again
\* and again takes it in the end (Go chooses among the ready cases at random)
SpecHang ==
    /\ Init
    /\ [][NextHang]_vars
    /\ WF_vars(\E outcome \in Outcomes : checkAlertsEnds(outcome))
    /\ WF_vars(\E outcome \in Outcomes : collectEnds(outcome))
    /\ SF_vars(SelectStop)
    /\ SF_vars(SelectStopCollection)

\* the calls of AlertDetector.Start and Stop made from several goroutines,
\* the statements of Start interleaved
NextStarts ==
    \/ \E c \in Callers : StartReadsRunning(c)
    \/ \E c \in Callers : StartLaunches(c)
    \/ LoopReturns
    \/ TickerFires
    \/ Stop
    \/ ManagerStop

SpecStarts == Init /\ [][NextStarts]_vars

\* the service with any stored value of alert_check_interval
InitConfig ==
    /\ rules = InitializeDefaultAlertRules
    /\ alerts = << >>
    /\ history = << >>
    /\ events = << >>
    /\ now = 0
    /\ ret = Ret("none", "nil", Nil, NoData, {})
    /\ everReached = {}
    /\ trail = << >>
    /\ cpuHistory = << >>
    /\ memoryHistory = << >>
    /\ networkHistory = << >>
    /\ pushed = [k \in HistoryKinds |-> << >>]
    /\ sampled = 0
    /\ deviations = 0
    /\ failed = {}
    /\ inflight = Idle
    /\ running = FALSE
    /\ stopCh = "open"
    /\ ctxDone = FALSE
    /\ ticker = [active |-> FALSE, C |-> 0]
    /\ loop = "none"
    /\ collectTicker = [active |-> TRUE, C |-> 0]
    /\ stopCollection = "open"
    /\ collector = "select"
    /\ count = [fired |-> 0, dropped |-> 0, taken |-> 0, evaluations |-> 0,
                samples |-> 0, starts |-> 0, timers |-> 0,
                panics |-> [evaluation |-> 0, sampling |-> 0]]
    /\ signals = {}
    /\ mu = [readers |-> {}, writer |-> FALSE]
    /\ sampling = Resting
    /\ gets = [r \in Readers |-> NoCall]
    /\ config \in StoredValues
    /\ interval = 0
    /\ calls = [c \in Callers |-> "idle"]
    /\ loops = 0

\* the start of the evaluation loop by its manager, and the loop's first steps
NextConfig ==
    \/ ManagerStart
    \/ \E outcome \in Outcomes : checkAlertsEnds(outcome)
    \/ TickerFires
    \/ SelectTick

SpecConfig == InitConfig /\ [][NextConfig]_vars

\* the sampling loop on its own: it shares no state with the alert engine
NextSampler ==
    \E cpuPercents \in CpuAnswers, vmStat \in MemAnswers, netStats \in NetAnswers :
        collectHistoricalData(cpuPercents, vmStat, netStats)

SpecSampler == Init /\ [][NextSampler]_vars

----------------------------------------------------------------------------
(* Vocabulary of the properties *)

Key(a) == <<a.MetricType, a.Severity, a.HostName>>

RuleKey(r) == <<r.MetricType, r.Severity, Hostname>>

Keys == {<<m, sev, Hostname>> : m \in Metrics, sev \in Severities}

\* the step just taken was an evaluation tick
TickStep == ret'.op = "CheckAlerts" /\ now' = now + 1

\* the ids of the alerts of key k with the given status
WithStatus(as, k, status) ==
    {i \in 1..Len(as) : Key(as[i]) = k /\ as[i].Status = status}

\* current_value <op> threshold, for the operators a rule can carry
OpHolds(op, value, threshold) ==
    CASE op = ">"  -> value > threshold
      [] op = "<"  -> value < threshold
      [] op = ">=" -> value >= threshold
      [] op = "<=" -> value <= threshold
      [] op = "==" -> value = threshold
      [] OTHER     -> FALSE

\* the end_time of an alert row: null when the row has no such column
EndTime(a) == IF "EndTime" \in DOMAIN a THEN a.EndTime ELSE Nil

\* the step just taken was a successful ResolveAlert
ResolveStep == ret'.op = "ResolveAlert" /\ now' = now + 1 /\ ret'.err = "nil"

\* the step just taken was a successful AcknowledgeAlert
AcknowledgeStep ==
    ret'.op = "AcknowledgeAlert" /\ now' = now + 1 /\ ret'.err = "nil"

\* the actions of the history rows of one alert, in append order
RECURSIVE ActionsOf(_, _)
ActionsOf(hs, alertID) ==
    IF hs = << >> THEN << >>
    ELSE IF Head(hs).AlertID = alertID
         THEN <<Head(hs).Action>> \o ActionsOf(Tail(hs), alertID)
         ELSE ActionsOf(Tail(hs), alertID)

----------------------------------------------------------------------------
(* Properties of the alert engine *)

\* C1: in every reachable state, every (metric_type, severity, hostname) key
\* has at most one alert with status active.
C1_AtMostOneActivePerKey ==
    \A i, j \in 1..Len(alerts) :
        (/\ Key(alerts[i]) = Key(alerts[j])
         /\ alerts[i].Status = "active"
         /\ alerts[j].Status = "active") => i = j

\* a key with an active alert next to an earlier alert that is no longer active
C1_Witness ==
    \E i, j \in 1..Len(alerts) :
        /\ i < j
        /\ Key(alerts[i]) = Key(alerts[j])
        /\ alerts[i].Status # "active"
        /\ alerts[j].Status = "active"

\* C2 (as stated): the status of an alert changes only along
\* active -> acknowledged, acknowledged -> resolved or active -> resolved, and a
\* resolved alert never changes status again.
C2_StatusTransitions ==
    [][\A i \in 1..Len(alerts) :
          \/ alerts'[i].Status = alerts[i].Status
          \/ <<alerts[i].Status, alerts'[i].Status>> \in
                 { <<"active", "acknowledged">>,
                   <<"acknowledged", "resolved">>,
                   <<"active", "resolved">> }]_vars

\* C4: AcknowledgeAlert or ResolveAlert with an id no alert has returns the
\* not-found error and leaves alerts, history and events as they were.
C4_UnknownIdChangesNothing ==
    [][(/\ ret'.op \in {"AcknowledgeAlert", "ResolveAlert"}
        /\ now' = now + 1
        /\ ret'.id \notin 1..Len(alerts))
       => (/\ ret'.err = "ErrRecordNotFound"
           /\ alerts' = alerts
           /\ history' = history
           /\ events' = events)]_vars

\* a not-found answer given while the storage holds alerts and their trails
C4_Witness ==
    /\ ret.op \in {"AcknowledgeAlert", "ResolveAlert"}
    /\ ret.err = "ErrRecordNotFound"
    /\ ret.id = Len(alerts) + 1
    /\ Len(alerts) > 0
    /\ Len(history) > 0

C7_AckThenResolveHistory ==
    \A i \in 1..Len(alerts) :
        trail[i] = <<"create", "acknowledge", "resolve">>
            => ActionsOf(history, i) = <<"created", "acknowledged", "resolved">>

\* an alert that has been created, acknowledged and resolved, in this order
C7_Witness ==
    \E i \in 1..Len(alerts) :
        /\ trail[i] = <<"create", "acknowledge", "resolve">>
        /\ alerts[i].Status = "resolved"

\* C8: a metric whose reading was below the threshold of each of its rules on
\* every tick so far has no alert.
C8_BelowThresholdNoAlert ==
    \A m \in Metrics :
        m \notin everReached => \A i \in 1..Len(alerts) : alerts[i].MetricType # m

\* ticks have created alerts for one metric while another metric, read on the
\* same ticks, stayed below its thresholds
C8_Witness ==
    /\ ret.op = "CheckAlerts"
    /\ Len(alerts) > 0
    /\ \E m \in Metrics :
           /\ m \notin everReached
           /\ ret.data[m] = 80
           /\ \E n \in 1..Len(rules) : rules[n].MetricType = m

\* C9 (as stated): on a tick a rule counts as breached exactly when
\* current_value <op> threshold holds for the operator of the rule.
C9_BreachFollowsOperator ==
    ret.op = "CheckAlerts" =>
        \A n \in 1..Len(rules) :
            rules[n].ID \in ret.breached
                <=> OpHolds(rules[n].Operator, ret.data[rules[n].MetricType],
                            rules[n].Threshold)

\* C10 (as stated): a rule that is not enabled never makes a tick create or
\* update an alert: an alert a tick creates has an enabled rule of its key that
\* the reading reaches, and an alert a tick updates has an enabled rule of its key.
C10_DisabledRulesIgnored ==
    [][TickStep =>
         /\ \A i \in (Len(alerts)+1)..Len(alerts') :
                \E n \in 1..Len(rules) :
                    /\ RuleKey(rules[n]) = Key(alerts'[i])
                    /\ rules[n].Enabled
                    /\ Breached(ret'.data[rules[n].MetricType], rules[n])
         /\ \A i \in 1..Len(alerts) :
                alerts'[i] # alerts[i] =>
                    \E n \in 1..Len(rules) :
                        /\ RuleKey(rules[n]) = Key(alerts[i])
                        /\ rules[n].Enabled]_vars

\* C11 (as stated): a successful ResolveAlert on an active or acknowledged
\* alert sets its status to resolved and its end_time, null before, to the time
\* of the resolution, appends one history row {resolved, message} and emits one
\* alert_resolved event.
C11_ResolveSetsEndTime ==
    [][(/\ ResolveStep
        /\ alerts[ret'.id].Status \in {"active", "acknowledged"})
       => (/\ alerts'[ret'.id].Status = "resolved"
           /\ EndTime(alerts[ret'.id]) = Nil
           /\ EndTime(alerts'[ret'.id]) = now'
           /\ history' = Append(history, [AlertID |-> ret'.id,
                                          Action |-> "resolved",
                                          Message |-> ret'.message])
           /\ Len(events') = Len(events) + 1
           /\ events'[Len(events')].EventType = "alert_resolved")]_vars

\* C12: a successful AcknowledgeAlert on an active alert sets its status to
\* acknowledged, appends exactly one history row {acknowledged} with the given
\* message, emits no event and changes no other alert.
C12_AcknowledgeEffects ==
    [][(/\ AcknowledgeStep
        /\ alerts[ret'.id].Status = "active")
       => (/\ alerts'[ret'.id].Status = "acknowledged"
           /\ history' = Append(history, [AlertID |-> ret'.id,
                                          Action |-> "acknowledged",
                                          Message |-> ret'.message])
           /\ events' = events
           /\ Len(alerts') = Len(alerts)
           /\ \A i \in 1..Len(alerts) :
                  i # ret'.id => alerts'[i] = alerts[i])]_vars

\* after an acknowledge of an alert that was active: the alert acknowledged,
\* next to an active alert of the same host the call left alone
C12_Witness ==
    /\ ret.op = "AcknowledgeAlert"
    /\ ret.err = "nil"
    /\ trail[ret.id] = <<"create", "acknowledge">>
    /\ alerts[ret.id].Status = "acknowledged"
    /\ alerts[ret.id].UpdatedAt = now
    /\ history[Len(history)] = [AlertID |-> ret.id, Action |-> "acknowledged",
                                Message |-> ret.message]
    /\ Len(events) > 0
    /\ \E j \in 1..Len(alerts) :
           /\ j # ret.id
           /\ alerts[j].HostName = alerts[ret.id].HostName
           /\ alerts[j].Status = "active"
           /\ alerts[j].UpdatedAt < now

\* the number of events of one type
EventCount(es, eventType) ==
    Cardinality({e \in 1..Len(es) : es[e].EventType = eventType})

\* C13 (as stated): also when storage calls can fail, every alert row is created
\* with status active, the reading of the tick as its value and the threshold
\* of a rule of its key, and every alert row in storage has exactly one created
\* history row, which is its first history row, and exactly one alert_created
\* event.
C13_AlertRowsAreWhole ==
    [][/\ \A i \in (Len(alerts)+1)..Len(alerts') :
              /\ alerts'[i].Status = "active"
              /\ alerts'[i].Value = ret'.data[alerts'[i].MetricType]
              /\ \E n \in 1..Len(rules) :
                     /\ RuleKey(rules[n]) = Key(alerts'[i])
                     /\ rules[n].Threshold = alerts'[i].Threshold
       /\ \A i \in 1..Len(alerts') :
              LET acts == ActionsOf(history', i)
              IN  /\ Len(acts) > 0
                  /\ acts[1] = "created"
                  /\ Cardinality({k \in 1..Len(acts) : acts[k] = "created"}) = 1
       /\ EventCount(events', "alert_created") = Len(alerts')]_vars

\* C14: on every tick, breach or no breach, every alert that is active gets the
\* tick's reading as its value and the tick's time as updated_at and is
\* otherwise left as it was; its threshold stays the one it was created with;
\* it gets no history row, and the tick adds history rows and events only for
\* the alerts it creates.
C14_TickRefreshesActiveAlert ==
    [][TickStep =>
         /\ \A i \in 1..Len(alerts) :
                alerts[i].Status = "active" =>
                    /\ alerts'[i] =
                           [alerts[i] EXCEPT
                              !.Value = ret'.data[alerts[i].MetricType],
                              !.UpdatedAt = now']
                    /\ alerts'[i].Message =
                           generateAlertMessage(alerts'[i].MetricType,
                               alerts'[i].Severity, alerts'[i].Message[4],
                               alerts'[i].Threshold)
                    /\ ActionsOf(history', i) = ActionsOf(history, i)
         /\ Len(history') - Len(history) = Len(alerts') - Len(alerts)
         /\ Len(events') - Len(events) = Len(alerts') - Len(alerts)]_vars

\* after a tick that read a value below the threshold: an active alert created
\* on an earlier tick, refreshed to the reading, whose rule has been given
\* another threshold since
C14_Witness ==
    /\ ret.op = "CheckAlerts"
    /\ \E i \in 1..Len(alerts) :
           /\ alerts[i].Status = "active"
           /\ alerts[i].CreatedAt < now
           /\ alerts[i].UpdatedAt = now
           /\ alerts[i].Value = ret.data[alerts[i].MetricType]
           /\ alerts[i].Value < alerts[i].Threshold
           /\ alerts[i].Value # alerts[i].Message[4]
           /\ ActionsOf(history, i) = <<"created">>
           /\ \E n \in 1..Len(rules) :
                  /\ RuleKey(rules[n]) = Key(alerts[i])
                  /\ rules[n].Threshold # alerts[i].Threshold

\* C19 (as stated): the write-back of a tick changes nothing of an existing
\* alert but its value and timestamp, also when an acknowledge or resolve has
\* committed since the tick loaded the alert: the status the operator wrote
\* stays.
C19_TickWritesValueOnly ==
    [][(inflight.phase = "write" /\ inflight' # inflight)
       => \A i \in 1..Len(alerts) :
              alerts'[i] = [alerts[i] EXCEPT !.Value = alerts'[i].Value,
                                             !.UpdatedAt = alerts'[i].UpdatedAt]]_vars

----------------------------------------------------------------------------
(* Properties of the histories *)

HistoryOf(kind) ==
    CASE kind = "cpu"     -> cpuHistory
      [] kind = "memory"  -> memoryHistory
      [] kind = "network" -> networkHistory

Min(a, b) == IF a <= b THEN a ELSE b

\* the last n elements of s
LastN(s, n) == SubSeq(s, Len(s) - n + 1, Len(s))

\* C3: after N successful pushes a history of capacity 20 holds min(N, 20)
\* points, never more than 20, and they are the last min(N, 20) points pushed,
\* in the order they were pushed.
C3_HistoryIsLastPushes ==
    \A kind \in HistoryKinds :
        LET N == Len(pushed[kind])
        IN  /\ Len(HistoryOf(kind)) = Min(N, maxHistorySize)
            /\ Len(HistoryOf(kind)) <= maxHistorySize
            /\ HistoryOf(kind) = LastN(pushed[kind], Min(N, maxHistorySize))

\* a full history that has evicted its oldest point, next to a history that
\* missed a push on a failed read
C3_Witness ==
    /\ Len(pushed["cpu"]) > maxHistorySize
    /\ Len(cpuHistory) = maxHistorySize
    /\ cpuHistory[1] # pushed["cpu"][1]
    /\ \E kind \in HistoryKinds : Len(pushed[kind]) < sampled

\* C18: on a sampling tick where the OS read for a history kind fails, no point
\* is pushed into the history of that kind and its contents are as before.
C18_FailedReadPushesNothing ==
    [][sampled' = sampled + 1 =>
         \A kind \in failed' :
             /\ HistoryOf(kind)' = HistoryOf(kind)
             /\ pushed'[kind] = pushed[kind]]_vars

\* after a tick on which the read for one kind failed: that kind's history
\* holds the points of the earlier ticks, another kind has got one more
C18_Witness ==
    \E kind \in failed :
        /\ Len(HistoryOf(kind)) > 0
        /\ Len(pushed[kind]) = sampled - 1
        /\ \E other \in HistoryKinds \ failed :
               /\ Len(pushed[other]) = sampled
               /\ pushed[other][sampled].Timestamp = sampled

\* h is what a history held after some number of the pushes ps made into it
BetweenPushes(ps, h) ==
    \E n \in 0..Len(ps) : h = LastN(SubSeq(ps, 1, n), Min(n, maxHistorySize))

----------------------------------------------------------------------------
(* Properties of the two loops *)

\* the evaluation loop takes a new tick
NewEvaluationTick == loop = "select" /\ loop' = "check"

\* the sampling loop takes a new tick
NewSamplingTick == collector = "select" /\ collector' = "collect"

\* C15 (as stated, its safety part): once one stop call has been made while the
\* loops run, neither the sampling loop nor the evaluation loop starts a new
\* tick.
C15_OneSignalStopsBothLoops ==
    [][signals # {} => ~NewEvaluationTick /\ ~NewSamplingTick]_vars

\* C16 (as stated): a tick of either loop that panics is followed by the loop
\* waiting for its next tick; the panic does not end the loop.
C16_PanicKeepsLoopRunning ==
    [][/\ count'.panics.evaluation > count.panics.evaluation => loop' = "select"
       /\ count'.panics.sampling > count.panics.sampling
              => collector' = "select"]_vars

\* the evaluation loop is running and has not been told to stop
Evaluating ==
    /\ loop \in {"first check", "select", "check"}
    /\ signals = {}
    /\ ~ctxDone

\* C20 (as stated): while the evaluation loop runs, the evaluator has run once
\* for the start and once for every time the timer has fired, but for a tick
\* that is waiting to be taken.
C20_OncePerTimerFire ==
    Evaluating => count.evaluations + ticker.C = 1 + count.fired

\* C20 (amended): a started evaluation loop has run the evaluator once for the
\* start, before it takes any tick, and once for every tick it has taken from
\* the ticker; a timer fire is taken, waiting in the channel, or was dropped
\* because an earlier one was still waiting.
C20_OncePerTickTaken ==
    loop # "none" =>
        /\ count.evaluations = 1 + count.taken
        /\ count.fired = count.dropped + count.taken + ticker.C
        /\ loop = "first check" => count.taken = 0 /\ count.evaluations = 1

\* a running loop back at its select after the first evaluation and two ticks,
\* a third fire dropped because the evaluator was still running
C20_Witness ==
    /\ Evaluating
    /\ loop = "select"
    /\ count.evaluations = 3
    /\ count.taken = 2
    /\ count.dropped = 1

\* C27 (as stated): however often AlertDetector.Stop, AlertDetectorManager.Stop
\* and StopHistoryCollection are called, and wherever the loops are at the time,
\* no call closes a stop channel that is closed already.
C27_StopIsRepeatable ==
    "panic: close of closed channel" \notin signals

\* C28 (as stated): a Start on a detector that is not running, stopped before
\* or not, launches a loop that begins with an evaluation, and while the
\* context is not cancelled a loop leaves only on a Stop call made since it
\* was started.
C28_RestartRunsUntilStopped ==
    [][/\ (count'.starts > count.starts /\ ~running)
              => (running' /\ loop' = "first check")
       /\ (loop # "exited" /\ loop' = "exited" /\ ~ctxDone)
              => "Stop" \in signals]_vars

\* C26 (as stated): however the calls of Start and Stop interleave, at most
\* one evaluation loop of the detector is running.
C26_AtMostOneLoop == loops <= 1

\* C23 (as stated): a tick of either loop, even one with a call that never
\* returns, is followed by the loop waiting at its select again or having
\* left, and an evaluation loop that has been told to stop leaves.
C23_HungCallLosesOneTick ==
    /\ (loop \in {"first check", "check", "hung"})
           ~> (loop \in {"select", "exited"} \/ ~Up)
    /\ (collector \in {"collect", "hung"})
           ~> (collector \in {"select", "exited", "panicked"})
    /\ (loop # "none" /\ (stopCh = "closed" \/ ctxDone))
           ~> (loop = "exited" \/ ~Up)

----------------------------------------------------------------------------
(* Properties of the ticks on a failing storage *)

\* the rows a step appended to a table
Added(old, new) == {i \in (Len(old) + 1)..Len(new) : TRUE}

\* the alerts of key k a tick appended to the table, without their ids
NewOfKey(old, new, k) ==
    {[new[i] EXCEPT !.ID = Nil] : i \in {j \in Added(old, new) : Key(new[j]) = k}}

\* no storage call made for key k is among the failing ones
Spared(faults, k) == \A f \in faults : <<f[1], f[2]>> # <<k[1], k[2]>>

\* C21: a storage failure for one (metric, rule) pair does not stop the tick:
\* for every key whose own storage calls succeed, the tick leaves the alerts
\* of that key exactly as the same tick on a storage without failures leaves
\* them (ids aside), and an alert it creates has its "created" history row
C21_FailureSparesOtherPairs ==
    [][TickStep =>
         LET clean == CheckMetrics(Store(alerts, history, events, {}),
                                   <<"cpu", "memory", "disk">>, ret'.data,
                                   GetAllRules(rules), now + 1)
         IN  /\ \A i \in 1..Len(alerts) :
                    Spared(ret'.faults, Key(alerts[i])) =>
                        alerts'[i] = clean.alerts[i]
             /\ \A k \in Keys :
                    Spared(ret'.faults, k) =>
                        /\ NewOfKey(alerts, alerts', k)
                               = NewOfKey(alerts, clean.alerts, k)
                        /\ Cardinality({i \in Added(alerts, alerts') :
                                            Key(alerts'[i]) = k}) <= 1
             /\ \A i \in Added(alerts, alerts') :
                    Spared(ret'.faults, Key(alerts'[i])) =>
                        ActionsOf(history', i) = <<"created">>]_vars

\* a tick on which the create for a breaching cpu rule failed and the alert
\* of another key was created
C21_Witness ==
    /\ ret.op = "CheckAlerts"
    /\ <<"cpu", "warning", "create">> \in ret.faults
    /\ 1 \in ret.breached
    /\ WithStatus(alerts, <<"cpu", "warning", Hostname>>, "active") = {}
    /\ \E i \in 1..Len(alerts) :
           /\ alerts[i].MetricType = "memory"
           /\ alerts[i].CreatedAt = now

\* the key an event of the alert engine was written for
EventKey(e) == <<e.Message[2], e.Severity, e.HostName>>

\* C22: on a tick where a rule breaches, the key has no active alert and the
\* INSERT of the alert fails, no alert, history row or event is recorded for
\* the key; on a tick where a rule breaches, the key has no active alert and
\* its storage calls succeed (the tick after the failed one among them), one
\* active alert is created with its "created" history row and its
\* alert_created event
C22_FailedCreateIsRetried ==
    [][TickStep =>
         \A k \in Keys :
             LET breach == \E i \in 1..Len(rules) :
                               /\ RuleKey(rules[i]) = k
                               /\ rules[i].ID \in ret'.breached
                 noActive == WithStatus(alerts, k, "active") = {}
                 newAlerts == {i \in Added(alerts, alerts') : Key(alerts'[i]) = k}
                 newRows == {j \in Added(history, history') :
                                \/ history'[j].AlertID \notin 1..Len(alerts')
                                \/ Key(alerts'[history'[j].AlertID]) = k}
                 newEvents == {j \in Added(events, events') :
                                  EventKey(events'[j]) = k}
             IN  /\ <<k[1], k[2]>> \in ret'.lost =>
                        newAlerts = {} /\ newRows = {} /\ newEvents = {}
                 /\ (breach /\ noActive /\ Spared(ret'.faults, k)) =>
                        /\ Cardinality(newAlerts) = 1
                        /\ \A i \in newAlerts :
                               /\ alerts'[i].Status = "active"
                               /\ ActionsOf(history', i) = <<"created">>
                        /\ Cardinality(newRows) = 1
                        /\ Cardinality(newEvents) = 1
                        /\ \A j \in newEvents :
                               events'[j].EventType = "alert_created"]_vars

\* the tick right after one whose INSERT of the cpu warning alert failed has
\* created that alert with its history row and its event
C22_Witness ==
    /\ ret.op = "CheckAlerts"
    /\ <<"cpu", "warning">> \in ret.after
    /\ \E i \in 1..Len(alerts) :
           /\ Key(alerts[i]) = <<"cpu", "warning", Hostname>>
           /\ alerts[i].CreatedAt = now
           /\ alerts[i].Status = "active"
           /\ ActionsOf(history, i) = <<"created">>
           /\ \A j \in 1..Len(alerts) :
                  Key(alerts[j]) = <<"cpu", "warning", Hostname>> => j = i
    /\ \E j \in 1..Len(events) :
           /\ events[j].EventType = "alert_created"
           /\ EventKey(events[j]) = <<"cpu", "warning", Hostname>>

----------------------------------------------------------------------------
(* Properties of rule scopes, acknowledged alerts and repeated resolves *)

\* the rule applies to the machine the process runs on: it has no host scope,
\* or its host is this machine
AppliesLocally(r) == r.HostID = Nil \/ Hosts[r.HostID] = Hostname

\* C24 (as stated): a rule scoped to a different host never makes the local
\* tick create or update an alert: an alert a tick creates has a rule of its
\* key that applies locally and that the reading reaches, and an alert a tick
\* updates has a rule of its key that applies locally.
C24_HostScopedRulesStayRemote ==
    [][TickStep =>
         /\ \A i \in (Len(alerts)+1)..Len(alerts') :
                \E n \in 1..Len(rules) :
                    /\ RuleKey(rules[n]) = Key(alerts'[i])
                    /\ AppliesLocally(rules[n])
                    /\ Breached(ret'.data[rules[n].MetricType], rules[n])
         /\ \A i \in 1..Len(alerts) :
                alerts'[i] # alerts[i] =>
                    \E n \in 1..Len(rules) :
                        /\ RuleKey(rules[n]) = Key(alerts[i])
                        /\ AppliesLocally(rules[n])]_vars

\* C25: on a tick where a rule of key k breaches while k has an acknowledged
\* alert and no active one, the tick creates one alert of key k, active and
\* with the next id, and writes no alert that existed before, so that the
\* key then has an acknowledged and an active alert.
C25_AcknowledgedDoesNotBlockNew ==
    [][TickStep =>
         \A k \in Keys :
             (/\ WithStatus(alerts, k, "acknowledged") # {}
              /\ WithStatus(alerts, k, "active") = {}
              /\ \E n \in 1..Len(rules) :
                     RuleKey(rules[n]) = k /\ rules[n].ID \in ret'.breached)
             => (/\ \A i \in 1..Len(alerts) :
                        Key(alerts[i]) = k => alerts'[i] = alerts[i]
                 /\ Cardinality({i \in Added(alerts, alerts') :
                                     Key(alerts'[i]) = k}) = 1
                 /\ \A i \in Added(alerts, alerts') :
                        Key(alerts'[i]) = k =>
                            /\ alerts'[i].ID = i
                            /\ alerts'[i].Status = "active"
                            /\ \A j \in 1..Len(alerts) : alerts[j].ID # i
                 /\ WithStatus(alerts', k, "acknowledged") # {}
                 /\ WithStatus(alerts', k, "active") # {})]_vars

\* after a tick: an acknowledged alert that the tick did not write and an
\* active alert of the same key that the tick created
C25_Witness ==
    /\ ret.op = "CheckAlerts"
    /\ \E i, j \in 1..Len(alerts) :
           /\ i < j
           /\ Key(alerts[i]) = Key(alerts[j])
           /\ alerts[i].Status = "acknowledged"
           /\ alerts[i].UpdatedAt < now
           /\ trail[i] = <<"create", "acknowledge">>
           /\ alerts[j].Status = "active"
           /\ alerts[j].CreatedAt = now

\* the number of elements of s equal to x
RECURSIVE CountOf(_, _)
CountOf(s, x) ==
    IF s = << >> THEN 0
    ELSE (IF Head(s) = x THEN 1 ELSE 0) + CountOf(Tail(s), x)

\* C30 (as stated): an alert never has more than one history row with the
\* action resolved, and a ResolveAlert on an alert that is resolved already
\* adds no history row and no event.
C30_ResolveOnce ==
    [][/\ \A i \in 1..Len(alerts') :
              CountOf(ActionsOf(history', i), "resolved") <= 1
       /\ (ResolveStep /\ alerts[ret'.id].Status = "resolved")
              => (history' = history /\ events' = events)]_vars

----------------------------------------------------------------------------
(* Properties of the start of the evaluation loop *)

\* the stored value is a decimal number above zero
IsPositiveNumber(cfg) ==
    /\ cfg.found
    /\ cfg.Value # << >>
    /\ \A i \in 1..Len(cfg.Value) : IsDigit(cfg.Value[i])
    /\ leadingInt(cfg.Value) > 0

\* C29 (as stated): once AlertDetectorManager.Start has run, whatever the
\* stored value of alert_check_interval, nothing has panicked and the loop
\* runs on a ticker with a positive interval: the stored number of seconds
\* when the value is a positive number, 30 seconds otherwise.
C29_IntervalPositiveOrDefault ==
    count.starts > 0 =>
        /\ signals = {}
        /\ ticker.active
        /\ interval > 0
        /\ interval = IF IsPositiveNumber(config)
                      THEN 1000 * leadingInt(config.Value)
                      ELSE DefaultInterval

====
